---- MODULE Spec2Model ----
(***************************************************************************)
(* A model of the bash clone's console (src/unnamed/part_000): the termios *)
(* handling of console_initialize / console_finalize, the byte-at-a-time   *)
(* line editor get_cmd, and the command loop console_run.                  *)
(*                                                                         *)
(* A termios configuration is the set of the flags the program names that  *)
(* are set in it.  Bytes are integers.  The command buffer p_cmd is a      *)
(* function on 0 .. DEFAULT_CMD_MAXLEN-1, as the C array is.               *)
(***************************************************************************)
EXTENDS Integers, Sequences, FiniteSets, TLC

\* ------------------------------------------------------------------ bounds
\* The size of the command buffer.  The source sets 1024 (part_000:32); the
\* model scales it down so that full-buffer states are reached.
DEFAULT_CMD_MAXLEN == 3

\* The number of get_cmd calls of one session the input may drive.
MaxCalls == 2

\* The number of console_finalize calls the release harness makes.
MaxRelease == 2

\* The number of bytes the input offers to one get_cmd call before it ends
\* the line, fails or closes: one more than the buffer holds.
MaxTyped == DEFAULT_CMD_MAXLEN + 1

\* ------------------------------------------------------- program constants
VERSION_MAJOR == 0
VERSION_MINOR == 1
KEY_ENTER == 13
KEY_CTRL(k) == k % 32

\* The bytes the model's input stream can deliver: NUL, Ctrl-C, Ctrl-D, CR,
\* backspace (Ctrl-H) and two printable letters.
NUL == 0
BS == 8
PrintableBytes == {97, 98}
OtherBytes == PrintableBytes \cup {NUL, BS}
Bytes == OtherBytes \cup {KEY_CTRL(99), KEY_CTRL(100), KEY_ENTER}

\* ----------------------------------------------------------------- termios
LFLAGS == {"ECHO", "ICANON", "ISIG", "IEXTEN"}
IFLAGS == {"BRKINT", "ICRNL", "INPCK", "ISTRIP", "IXON"}
OFLAGS == {"OPOST"}
CFLAGS == {"CS8"}
AllFlags == LFLAGS \cup IFLAGS \cup OFLAGS \cup CFLAGS

\* console_t console = { .history_max = ... }: the termios members are zeroed.
ZeroTermios == {}

\* The configurations the terminal may have when the program starts: the usual
\* cooked mode, a 7-bit line with every processing flag set, a line that is
\* already raw.
InitialConfigs ==
    { {"ECHO", "ICANON", "ISIG", "IEXTEN", "ICRNL", "IXON", "OPOST", "CS8"},
      AllFlags \ {"CS8"},
      {"CS8"} }

\* The flag edits of console_initialize.
RawConfig(cfg) == (cfg \ (LFLAGS \cup IFLAGS \cup OFLAGS)) \cup CFLAGS

\* tcgetattr(fd, &dst): dst receives the terminal's configuration on success
\* and is left alone on failure.
tcgetattr(t, dst, ok) == IF ok THEN t ELSE dst

\* tcsetattr(fd, TCSAFLUSH, &cfg): the terminal takes cfg on success and is
\* left alone on failure.
tcsetattr(t, cfg, ok) == IF ok THEN cfg ELSE t


\* One entry of the log of termios system calls: the function that made the
\* call, the call, whether it succeeded and the terminal's configuration
\* after it.
SysCall(fn, call, ok, t) == [fn |-> fn, call |-> call, ok |-> ok, term |-> t]

\* The outcomes of the system calls of console_initialize: the query into
\* old_console fails, the query into new_console fails, the apply fails, or
\* all three succeed.
InitPaths == {"query_old_fails", "query_new_fails", "apply_fails", "ok"}

\* console_initialize with && between its two queries: it gives up only when
\* both fail, so a failed query into old_console is followed by the query into
\* new_console and by the apply.
console_initialize_BothQueries(con, t, path) ==
    LET old1 == tcgetattr(t, con.old_console, path # "query_old_fails")
        new1 == tcgetattr(t, con.new_console, path # "query_new_fails")
        applied == path \in {"query_old_fails", "apply_fails", "ok"}
        okApply == path \in {"query_old_fails", "ok"}
        new2 == IF applied THEN RawConfig(new1) ELSE new1
        t2 == IF applied THEN tcsetattr(t, new2, okApply) ELSE t
        fn == "console_initialize"
    IN  [ console |-> [old_console |-> old1, new_console |-> new2],
          term |-> t2,
          status |-> IF okApply THEN 0 ELSE -1,
          log |-> <<SysCall(fn, "tcgetattr", path # "query_old_fails", t),
                    SysCall(fn, "tcgetattr", path # "query_new_fails", t)>>
                  \o (IF applied
                      THEN <<SysCall(fn, "tcsetattr", okApply, t2)>>
                      ELSE <<>>) ]

\* console_initialize on console con with the terminal in configuration t.
console_initialize(con, t, path) ==
    LET old1 == tcgetattr(t, con.old_console, path # "query_old_fails")
        queriedNew == path # "query_old_fails"
        new1 == IF queriedNew
                THEN tcgetattr(t, con.new_console, path # "query_new_fails")
                ELSE con.new_console
        applied == path \in {"apply_fails", "ok"}
        new2 == IF applied THEN RawConfig(new1) ELSE new1
        t2 == IF applied THEN tcsetattr(t, new2, path = "ok") ELSE t
        fn == "console_initialize"
    IN  [ console |-> [old_console |-> old1, new_console |-> new2],
          term |-> t2,
          status |-> IF path = "ok" THEN 0 ELSE -1,
          log |-> <<SysCall(fn, "tcgetattr", path # "query_old_fails", t)>>
                  \o (IF queriedNew
                      THEN <<SysCall(fn, "tcgetattr", path # "query_new_fails", t)>>
                      ELSE <<>>)
                  \o (IF applied
                      THEN <<SysCall(fn, "tcsetattr", path = "ok", t2)>>
                      ELSE <<>>) ]

\* console_finalize restoring the wrong member of the console.
console_finalize_NewConsole(con, t, ok) ==
    LET t2 == tcsetattr(t, con.new_console, ok)
    IN  [ term |-> t2,
          log |-> <<SysCall("console_finalize", "tcsetattr", ok, t2)>> ]

\* console_finalize on console con with the terminal in configuration t: one
\* tcsetattr of old_console whose result is ignored.
console_finalize(con, t, ok) ==
    LET t2 == tcsetattr(t, con.old_console, ok)
    IN  [ term |-> t2,
          log |-> <<SysCall("console_finalize", "tcsetattr", ok, t2)>> ]

\* ------------------------------------------------------------ the C strings
CRLF == <<13, 10>>
\* "Mike's bash clone v%d.%d\r\n"
Banner == <<77, 105, 107, 101, 39, 115, 32, 98, 97, 115, 104, 32,
            99, 108, 111, 110, 101, 32, 118>>
          \o <<48 + VERSION_MAJOR, 46, 48 + VERSION_MINOR>> \o CRLF
\* "%c ", prompt_c = '$'
Prompt == <<36, 32>>
\* "^C"
CaretC == <<94, 67>>
\* "Press CTRL-D to exit.\r\n"
Hint == <<80, 114, 101, 115, 115, 32, 67, 84, 82, 76, 45, 68, 32,
          116, 111, 32, 101, 120, 105, 116, 46>> \o CRLF
\* "Exiting...\r\n"
Exiting == <<69, 120, 105, 116, 105, 110, 103, 46, 46, 46>> \o CRLF

\* The loop without its memset.
memset_Skipped(buf) == buf

\* memset(p_cmd, '\0', DEFAULT_CMD_MAXLEN)
memset(buf) == [i \in 0 .. DEFAULT_CMD_MAXLEN - 1 |-> NUL]

\* What lies in memory behind p_cmd up to the next NUL, which a string read of
\* an unterminated buffer runs into: nothing, or one stray byte.
Overrun == {<<>>, <<63>>}

HasNul(buf) == \E i \in DOMAIN buf : buf[i] = NUL
FirstNul(buf) == CHOOSE i \in DOMAIN buf :
                    buf[i] = NUL /\ \A j \in DOMAIN buf : j < i => buf[j] # NUL

\* strlen(p_cmd); tail is what an unterminated buffer is followed by.
strlen(buf, tail) ==
    IF HasNul(buf) THEN FirstNul(buf) ELSE DEFAULT_CMD_MAXLEN + Len(tail)

\* The bytes printf("%s", p_cmd) writes.
CString(buf, tail) ==
    [k \in 1 .. strlen(buf, tail) |->
        IF k <= DEFAULT_CMD_MAXLEN THEN buf[k - 1] ELSE tail[k - DEFAULT_CMD_MAXLEN]]

\* The store with the index forgotten: p_cmd[0] = c.
InsertChar_AtStart(buf, idx, len, c) ==
    [i \in DOMAIN buf |-> IF i = 0 THEN c ELSE buf[i]]

\* The indices of p_cmd that the shift loop (i = len down to idx+1) and the
\* store (idx) of get_cmd's default case write.
WrittenIndices(idx, len) == {idx} \cup {i \in idx + 1 .. len : TRUE}

\* The shift loop run upwards (i = idx+1 .. len), which copies p_cmd[idx] into
\* every place behind it.
InsertChar_ShiftUpwards(buf, idx, len, c) ==
    [i \in DOMAIN buf \cup WrittenIndices(idx, len) |->
        IF i = idx THEN c
        ELSE IF i > idx /\ i <= len THEN buf[idx]
        ELSE buf[i]]

\* The shift loop and the store of get_cmd's default case: the characters at
\* idx .. len-1 move one place up and c is stored at idx.  A write behind the
\* array shows as an index outside 0 .. DEFAULT_CMD_MAXLEN-1.
InsertChar(buf, idx, len, c) ==
    [i \in DOMAIN buf \cup WrittenIndices(idx, len) |->
        IF i = idx THEN c
        ELSE IF i > idx /\ i <= len THEN buf[i - 1]
        ELSE buf[i]]

\* The output of get_cmd's default case, given the buffer, index and length
\* after the insert: the character, the characters that follow the cursor, one
\* backspace for each of them.
EchoChar(buf, idx, len, c) ==
    <<c>> \o [k \in 1 .. (len - idx) |-> buf[idx + k - 1]]
          \o [k \in 1 .. (len - idx) |-> BS]

\* ------------------------------------------------------------------- state
VARIABLES
    pc,           \* where console_run is
    term,         \* the terminal's configuration
    term0,        \* the terminal's configuration when the program started
    console,      \* console_t: old_console, new_console
    init_status,  \* what console_initialize returned
    p_cmd,        \* console_run's command buffer
    cmd_len,      \* get_cmd's cmd_len
    cmd_idx,      \* get_cmd's cmd_idx
    status,       \* get_cmd's status
    out,          \* stdout since the top of the current loop iteration
    typed,        \* the bytes read(2) delivered to this get_cmd call
    eof,          \* read(2) has reported end of stream
    calls,        \* the number of get_cmd calls so far
    prev,         \* how the previous get_cmd call ended, and its cmd_len
    outcome,      \* how this get_cmd call ended
    sys_log,      \* the termios system calls made so far
    flushed       \* how many bytes of out the last fflush(stdout) had covered

vars == <<pc, term, term0, console, init_status, p_cmd, cmd_len, cmd_idx,
          status, out, typed, eof, calls, prev, outcome, sys_log, flushed>>

editor == <<p_cmd, cmd_len, cmd_idx, status, out, typed, eof, calls, prev,
            outcome, flushed>>
tty == <<term, term0, console, init_status, sys_log>>

\* main: console = { .history_max = DEFAULT_HISTORY_MAXLEN }, console_run.
\* p_cmd and get_cmd's locals do not exist yet; they are written before they
\* are read (memset, the initialisers), so the values here are never seen.
InitCommon ==
    /\ term0 = term
    /\ console = [old_console |-> ZeroTermios, new_console |-> ZeroTermios]
    /\ init_status = -1
    /\ p_cmd = [i \in 0 .. DEFAULT_CMD_MAXLEN - 1 |-> NUL]
    /\ cmd_len = 0
    /\ cmd_idx = 0
    /\ status = -1
    /\ out = <<>>
    /\ typed = <<>>
    /\ eof = FALSE
    /\ calls = 0
    /\ prev = [outcome |-> "none", len |-> 0]
    /\ outcome = "none"
    /\ sys_log = <<>>
    /\ flushed = 0

Init ==
    /\ pc = "start"
    /\ term \in InitialConfigs
    /\ InitCommon

\* A return in place of goto EXIT.
ExitLabel_Return == "done"

\* The label EXIT of console_run, where console_finalize is called.
ExitLabel == "finalize"

\* console_run, up to the command loop: console_initialize, then the banner,
\* or goto EXIT when it failed.
ConsoleRunStart ==
    /\ pc = "start"
    /\ \E path \in InitPaths :
          LET r == console_initialize(console, term, path)
          IN  /\ console' = r.console
              /\ term' = r.term
              /\ init_status' = r.status
              /\ sys_log' = sys_log \o r.log
              /\ pc' = IF r.status = -1 THEN ExitLabel ELSE "loop"
              /\ out' = IF r.status = -1 THEN out ELSE out \o Banner
    /\ UNCHANGED <<term0, p_cmd, cmd_len, cmd_idx, status, typed, eof, calls,
                   prev, outcome, flushed>>

\* The top of the command loop: clear the buffer, print the prompt, enter
\* get_cmd, whose locals are initialised.
CommandLoop ==
    /\ pc = "loop"
    /\ p_cmd' = memset(p_cmd)
    /\ out' = Prompt
    /\ flushed' = Len(Prompt)
    /\ cmd_len' = 0
    /\ cmd_idx' = 0
    /\ status' = -1
    /\ typed' = <<>>
    /\ calls' = calls + 1
    /\ prev' = [outcome |-> outcome, len |-> cmd_len]
    /\ outcome' = "none"
    /\ pc' = "get_cmd"
    /\ UNCHANGED <<tty, eof>>

\* The default case without its cmd_idx++.
DefaultCase_NoIndexAdvance(c) ==
    IF cmd_len >= DEFAULT_CMD_MAXLEN
    THEN UNCHANGED <<p_cmd, cmd_len, cmd_idx, out, flushed>>
    ELSE /\ p_cmd' = InsertChar(p_cmd, cmd_idx, cmd_len, c)
         /\ cmd_len' = cmd_len + 1
         /\ cmd_idx' = cmd_idx
         /\ out' = out \o EchoChar(p_cmd', cmd_idx', cmd_len', c)
         /\ flushed' = Len(out')

\* The default case without its fflush(stdout).
DefaultCase_NoFlush(c) ==
    IF cmd_len >= DEFAULT_CMD_MAXLEN
    THEN UNCHANGED <<p_cmd, cmd_len, cmd_idx, out, flushed>>
    ELSE /\ p_cmd' = InsertChar(p_cmd, cmd_idx, cmd_len, c)
         /\ cmd_len' = cmd_len + 1
         /\ cmd_idx' = cmd_idx + 1
         /\ out' = out \o EchoChar(p_cmd', cmd_idx', cmd_len', c)
         /\ UNCHANGED flushed

\* The default case with the echo placed before the bounds check.
DefaultCase_EchoBeforeCheck(c) ==
    IF cmd_len >= DEFAULT_CMD_MAXLEN
    THEN /\ out' = out \o <<c>>
         /\ UNCHANGED <<p_cmd, cmd_len, cmd_idx, flushed>>
    ELSE /\ p_cmd' = InsertChar(p_cmd, cmd_idx, cmd_len, c)
         /\ cmd_len' = cmd_len + 1
         /\ cmd_idx' = cmd_idx + 1
         /\ out' = out \o EchoChar(p_cmd', cmd_idx', cmd_len', c)
         /\ flushed' = Len(out')

\* The default case with its bounds check off by one: cmd_len > maximum.
DefaultCase_OffByOne(c) ==
    IF cmd_len > DEFAULT_CMD_MAXLEN
    THEN UNCHANGED <<p_cmd, cmd_len, cmd_idx, out, flushed>>
    ELSE /\ p_cmd' = InsertChar(p_cmd, cmd_idx, cmd_len, c)
         /\ cmd_len' = cmd_len + 1
         /\ cmd_idx' = cmd_idx + 1
         /\ out' = out \o EchoChar(p_cmd', cmd_idx', cmd_len', c)
         /\ flushed' = Len(out')

\* The default case of get_cmd's switch on character c.
DefaultCase(c) ==
    IF cmd_len >= DEFAULT_CMD_MAXLEN
    THEN UNCHANGED <<p_cmd, cmd_len, cmd_idx, out, flushed>>
    ELSE /\ p_cmd' = InsertChar(p_cmd, cmd_idx, cmd_len, c)
         /\ cmd_len' = cmd_len + 1
         /\ cmd_idx' = cmd_idx + 1
         /\ out' = out \o EchoChar(p_cmd', cmd_idx', cmd_len', c)
         /\ flushed' = Len(out')

\* read returns -1: get_cmd returns its status, still -1.
GetCmdReadFail ==
    /\ pc = "get_cmd"
    /\ ~eof
    /\ outcome' = "Error"
    /\ pc' = "returned"
    /\ UNCHANGED <<tty, p_cmd, cmd_len, cmd_idx, status, out, typed, eof,
                   calls, prev, flushed>>

\* The Ctrl-C case without its status = 1.
GetCmdCtrlC_NoStatus ==
    /\ pc = "get_cmd"
    /\ ~eof
    /\ calls < MaxCalls
    /\ out' = out \o CaretC
    /\ outcome' = "Cancelled"
    /\ pc' = "returned"
    /\ UNCHANGED <<tty, p_cmd, cmd_len, cmd_idx, status, typed, eof, calls, prev,
                   flushed>>

\* read delivers Ctrl-C.
GetCmdCtrlC ==
    /\ pc = "get_cmd"
    /\ ~eof
    /\ calls < MaxCalls
    /\ out' = out \o CaretC
    /\ status' = 1
    /\ outcome' = "Cancelled"
    /\ pc' = "returned"
    /\ UNCHANGED <<tty, p_cmd, cmd_len, cmd_idx, typed, eof, calls, prev,
                   flushed>>

\* The Ctrl-D case without its goto EXIT, falling into the KEY_ENTER case.
GetCmdCtrlD_FallThrough ==
    /\ pc = "get_cmd"
    /\ ~eof
    /\ status' = 0
    /\ outcome' = "Terminated"
    /\ pc' = "returned"
    /\ UNCHANGED <<tty, p_cmd, cmd_len, cmd_idx, out, typed, eof, calls, prev,
                   flushed>>

\* read delivers Ctrl-D: get_cmd returns its status, still -1.
GetCmdCtrlD ==
    /\ pc = "get_cmd"
    /\ ~eof
    /\ outcome' = "Terminated"
    /\ pc' = "returned"
    /\ UNCHANGED <<tty, p_cmd, cmd_len, cmd_idx, status, out, typed, eof,
                   calls, prev, flushed>>

\* read delivers CR.
GetCmdEnter ==
    /\ pc = "get_cmd"
    /\ ~eof
    /\ calls < MaxCalls
    /\ status' = 0
    /\ outcome' = "Completed"
    /\ pc' = "returned"
    /\ UNCHANGED <<tty, p_cmd, cmd_len, cmd_idx, out, typed, eof, calls, prev,
                   flushed>>

\* read delivers any other byte.
GetCmdDefault ==
    /\ pc = "get_cmd"
    /\ ~eof
    /\ Len(typed) < MaxTyped
    /\ \E c \in OtherBytes :
          /\ typed' = Append(typed, c)
          /\ DefaultCase(c)
    /\ UNCHANGED <<tty, status, eof, calls, prev, outcome, pc>>

\* read returns 0, the stream has ended: c keeps the '\0' it was set to and
\* the switch runs on it.
GetCmdEof ==
    /\ pc = "get_cmd"
    /\ eof' = TRUE
    /\ DefaultCase(NUL)
    /\ UNCHANGED <<tty, status, typed, calls, prev, outcome, pc>>

\* console_run after get_cmd returned a negative status: leave the loop.
RunExit ==
    /\ pc = "returned"
    /\ status < 0
    /\ out' = out \o CRLF \o Exiting
    /\ flushed' = Len(out \o CRLF)
    /\ pc' = ExitLabel
    /\ UNCHANGED <<tty, p_cmd, cmd_len, cmd_idx, status, typed, eof, calls,
                   prev, outcome>>

\* console_run after get_cmd returned 1: the hint when the buffer is an empty
\* string, then the next iteration.
RunCancel ==
    /\ pc = "returned"
    /\ status = 1
    /\ \E tail \in Overrun :
          out' = out \o CRLF \o (IF strlen(p_cmd, tail) = 0 THEN Hint ELSE <<>>)
    /\ pc' = "loop"
    /\ UNCHANGED <<tty, p_cmd, cmd_len, cmd_idx, status, typed, eof, calls,
                   prev, outcome, flushed>>

\* console_run after get_cmd returned 0: print the command, then the next
\* iteration.
RunCompleted ==
    /\ pc = "returned"
    /\ status = 0
    /\ \E tail \in Overrun :
          out' = out \o CRLF \o <<39>> \o CString(p_cmd, tail) \o <<39>> \o CRLF
    /\ pc' = "loop"
    /\ UNCHANGED <<tty, p_cmd, cmd_len, cmd_idx, status, typed, eof, calls,
                   prev, outcome, flushed>>

\* EXIT: console_finalize, return.
ConsoleRunExit ==
    /\ pc = "finalize"
    /\ \E ok \in BOOLEAN :
          LET r == console_finalize(console, term, ok)
          IN  /\ term' = r.term
              /\ sys_log' = sys_log \o r.log
    /\ pc' = "done"
    /\ UNCHANGED <<term0, console, init_status, editor>>

Next ==
    \/ ConsoleRunStart
    \/ CommandLoop
    \/ GetCmdReadFail
    \/ GetCmdCtrlC
    \/ GetCmdCtrlD
    \/ GetCmdEnter
    \/ GetCmdDefault
    \/ GetCmdEof
    \/ RunExit
    \/ RunCancel
    \/ RunCompleted
    \/ ConsoleRunExit

Spec == Init /\ [][Next]_vars

\* The program's steps are taken as long as one is possible: the process runs.
FairSpec == Spec /\ WF_vars(Next)

\* ------------------------------------------------- the release driver
\* console_initialize followed by console_finalize called MaxRelease times
\* in succession, from any configuration of the terminal.
InitRelease ==
    /\ pc = "acquire"
    /\ term \in SUBSET AllFlags
    /\ InitCommon

Acquire ==
    /\ pc = "acquire"
    /\ \E path \in InitPaths :
          LET r == console_initialize(console, term, path)
          IN  /\ console' = r.console
              /\ term' = r.term
              /\ init_status' = r.status
              /\ sys_log' = sys_log \o r.log
    /\ pc' = "release"
    /\ UNCHANGED <<term0, editor>>

Release ==
    /\ pc = "release"
    /\ Len(SelectSeq(sys_log, LAMBDA e : e.fn = "console_finalize")) < MaxRelease
    /\ \E ok \in BOOLEAN :
          LET r == console_finalize(console, term, ok)
          IN  /\ term' = r.term
              /\ sys_log' = sys_log \o r.log
    /\ UNCHANGED <<pc, term0, console, init_status, editor>>

NextRelease ==
    \/ Acquire
    \/ Release

SpecRelease == InitRelease /\ [][NextRelease]_vars

\* ---------------------------------------------------- the insert driver
\* The default case of get_cmd applied once to any buffer, cursor and length
\* with cmd_idx <= cmd_len <= the maximum: the states get_cmd is written for,
\* the cursor anywhere in the line.
InitInsert ==
    /\ pc = "insert"
    /\ term \in InitialConfigs
    /\ term0 = term
    /\ console = [old_console |-> term, new_console |-> RawConfig(term)]
    /\ init_status = 0
    /\ cmd_len \in 0 .. DEFAULT_CMD_MAXLEN
    /\ cmd_idx \in 0 .. cmd_len
    /\ p_cmd \in {b \in [0 .. DEFAULT_CMD_MAXLEN - 1 -> OtherBytes] :
                    \A i \in 0 .. DEFAULT_CMD_MAXLEN - 1 : i >= cmd_len => b[i] = NUL}
    /\ status = -1
    /\ out = <<>>
    /\ typed = <<>>
    /\ eof = FALSE
    /\ calls = 1
    /\ prev = [outcome |-> "none", len |-> 0]
    /\ outcome = "none"
    /\ sys_log = <<>>
    /\ flushed = 0

InsertStep ==
    /\ pc = "insert"
    /\ \E c \in OtherBytes :
          /\ typed' = Append(typed, c)
          /\ DefaultCase(c)
    /\ pc' = "inserted"
    /\ UNCHANGED <<tty, status, eof, calls, prev, outcome>>

NextInsert ==
    \/ InsertStep

SpecInsert == InitInsert /\ [][NextInsert]_vars

TypeOK ==
    /\ pc \in {"start", "loop", "get_cmd", "returned", "finalize", "done",
               "acquire", "release", "insert", "inserted"}
    /\ term \subseteq AllFlags
    /\ cmd_len \in 0 .. DEFAULT_CMD_MAXLEN
    /\ cmd_idx \in 0 .. DEFAULT_CMD_MAXLEN
    /\ status \in {-1, 0, 1}
    /\ calls \in 0 .. MaxCalls


\* ------------------------------------------------------------- properties
Min(a, b) == IF a <= b THEN a ELSE b

\* The bytes of this call that the buffer had room for.
TypedPrefix == SubSeq(typed, 1, Min(Len(typed), DEFAULT_CMD_MAXLEN))

\* The buffer that holds the bytes of s and NUL behind them.
BufferOf(s) ==
    [i \in 0 .. DEFAULT_CMD_MAXLEN - 1 |-> IF i < Len(s) THEN s[i + 1] ELSE NUL]

AllPrintable(s) == \A k \in 1 .. Len(s) : s[k] \in PrintableBytes

\* The system calls console_finalize has made.
FinalizeCalls == SelectSeq(sys_log, LAMBDA e : e.fn = "console_finalize")

\* C1: once read has reported end of stream to a get_cmd call (whose input
\* held no CR, Ctrl-C or Ctrl-D, or it would have returned), get_cmd
\* eventually returns.
C1_ReturnsAfterStreamEnd == (pc = "get_cmd" /\ eof) ~> (pc # "get_cmd")

\* C2: printable bytes followed by CR make get_cmd return 0 with the buffer
\* holding exactly the bytes typed, in order, and cmd_len their number.
C2_RoundTrip ==
    (pc = "returned" /\ outcome = "Completed" /\ AllPrintable(typed)) =>
        /\ status = 0
        /\ cmd_len = Len(typed)
        /\ \A i \in 0 .. Len(typed) - 1 :
              i \in DOMAIN p_cmd /\ p_cmd[i] = typed[i + 1]

\* C2, amended: the same for at most DEFAULT_CMD_MAXLEN printable bytes; the
\* rest of the buffer is NUL.
C2_RoundTripWithinBuffer ==
    (/\ pc = "returned" /\ outcome = "Completed"
     /\ AllPrintable(typed) /\ Len(typed) <= DEFAULT_CMD_MAXLEN) =>
        /\ status = 0
        /\ cmd_len = Len(typed)
        /\ p_cmd = BufferOf(typed)

C2_Witness ==
    /\ pc = "returned" /\ outcome = "Completed"
    /\ AllPrintable(typed) /\ Len(typed) = DEFAULT_CMD_MAXLEN
    /\ typed[1] # typed[2]

\* C3: Ctrl-C makes get_cmd return 1 and no typed byte is left in the buffer
\* the caller sees.
C3_CancelDiscardsInput ==
    (pc = "returned" /\ outcome = "Cancelled") =>
        /\ status = 1
        /\ \A i \in DOMAIN p_cmd : p_cmd[i] = NUL

\* C3, amended: Ctrl-C makes get_cmd return 1 at once, after echoing ^C, and
\* the bytes typed before it are still in the buffer the caller sees.
C3_CancelKeepsInput ==
    (pc = "returned" /\ outcome = "Cancelled") =>
        /\ status = 1
        /\ p_cmd = BufferOf(TypedPrefix)
        /\ cmd_len = Len(TypedPrefix)
        /\ out = Prompt \o TypedPrefix \o CaretC

C3_Witness ==
    /\ pc = "returned" /\ outcome = "Cancelled"
    /\ Len(typed) = 2 /\ typed[1] \in PrintableBytes

\* C4: a get_cmd call that has read nothing yet has an all-NUL buffer,
\* cmd_idx = 0 and cmd_len = 0, however the previous call ended.
C4_FreshBufferPerCall ==
    (pc = "get_cmd" /\ typed = <<>> /\ ~eof) =>
        /\ \A i \in DOMAIN p_cmd : p_cmd[i] = NUL
        /\ DOMAIN p_cmd = 0 .. DEFAULT_CMD_MAXLEN - 1
        /\ cmd_idx = 0
        /\ cmd_len = 0

C4_Witness ==
    /\ pc = "get_cmd" /\ typed = <<>> /\ ~eof
    /\ calls = 2
    /\ prev.outcome = "Cancelled" /\ prev.len = DEFAULT_CMD_MAXLEN

\* C5: console_finalize has been called exactly once when console_run has
\* returned and not at all before, so after the last get_cmd call; get_cmd is
\* called only when console_initialize returned 0.
C5_GuaranteedRelease ==
    /\ Len(FinalizeCalls) = (IF pc = "done" THEN 1 ELSE 0)
    /\ (calls > 0 => init_status = 0)
    /\ (pc \in {"loop", "get_cmd", "returned"} => init_status = 0)

C5_Witness ==
    /\ pc = "done" /\ outcome = "Error" /\ calls = 2
    /\ Len(FinalizeCalls) = 1

\* C6: when console_initialize failed, the console_finalize call that follows
\* leaves the terminal's configuration as it found it.
C6_ReleaseWithoutAcquireIsNoOp ==
    (pc = "done" /\ init_status = -1) =>
        sys_log[Len(sys_log)].term = sys_log[Len(sys_log) - 1].term

C8_AcquireFailureLeavesNoRaw ==
    (pc = "done" /\ init_status = -1) => term = term0

C10_FourDistinctOutcomes ==
    pc = "returned" =>
        /\ outcome \in {"Completed", "Cancelled", "Terminated", "Error"}
        /\ (outcome = "Error" => status = -1)
        /\ (outcome = "Terminated" =>
                /\ status # -1
                /\ out = Prompt \o TypedPrefix
                /\ p_cmd = BufferOf(TypedPrefix))

\* The value get_cmd returns for each outcome.
ReturnValue(o) ==
    CASE o = "Completed" -> 0
      [] o = "Cancelled" -> 1
      [] o = "Terminated" -> -1
      [] o = "Error" -> -1

\* C10, amended: get_cmd ends in one of four outcomes and returns one of three
\* values: 0 when completed, 1 when cancelled, -1 both on Ctrl-D and on a read
\* failure; Ctrl-D ends it with nothing echoed and the buffer as it was.
C10_ThreeReturnValues ==
    pc = "returned" =>
        /\ outcome \in {"Completed", "Cancelled", "Terminated", "Error"}
        /\ status = ReturnValue(outcome)
        /\ (outcome = "Terminated" =>
                /\ out = Prompt \o TypedPrefix
                /\ p_cmd = BufferOf(TypedPrefix))

C10_Witness ==
    /\ pc = "returned" /\ outcome = "Terminated"
    /\ Len(typed) = DEFAULT_CMD_MAXLEN + 1

\* C11: in get_cmd and when it has returned, 0 <= cmd_idx <= cmd_len <= the
\* maximum, no write has gone behind the array (its indices are still
\* 0 .. maximum-1), and more bytes than the buffer holds neither grow the line
\* nor end the call: get_cmd is still reading, or it has ended for another
\* reason with the status of that reason.
C11_BufferBounds ==
    pc \in {"get_cmd", "returned"} =>
        /\ 0 <= cmd_idx /\ cmd_idx <= cmd_len /\ cmd_len <= DEFAULT_CMD_MAXLEN
        /\ DOMAIN p_cmd = 0 .. DEFAULT_CMD_MAXLEN - 1
        /\ (cmd_len < DEFAULT_CMD_MAXLEN =>
                WrittenIndices(cmd_idx, cmd_len) \subseteq 0 .. DEFAULT_CMD_MAXLEN - 1)
        /\ (Len(typed) > DEFAULT_CMD_MAXLEN =>
                /\ cmd_len = DEFAULT_CMD_MAXLEN
                /\ (outcome = "none" => pc = "get_cmd")
                /\ (outcome \in {"Completed", "Cancelled"} => status >= 0))

C11_Witness ==
    /\ pc = "get_cmd" /\ ~eof
    /\ Len(typed) = DEFAULT_CMD_MAXLEN + 1
    /\ cmd_len = DEFAULT_CMD_MAXLEN

\* A step of get_cmd in which read delivered a byte that is not Ctrl-C, Ctrl-D
\* or CR: the call goes on and the bytes delivered to it grow by one.
ReadsOtherByte == pc = "get_cmd" /\ Len(typed') = Len(typed) + 1

\* C12: with the buffer full, a byte other than Ctrl-C, Ctrl-D and CR leaves
\* the buffer, cmd_idx, cmd_len and the output as they were, and get_cmd goes
\* on reading: it does not return and its status is untouched.
C12_FullBufferByteIsNoOp ==
    [][(ReadsOtherByte /\ cmd_len = DEFAULT_CMD_MAXLEN) =>
          /\ UNCHANGED <<p_cmd, cmd_idx, cmd_len, out, flushed, status, outcome>>
          /\ pc' = "get_cmd"]_vars

C12_Witness ==
    /\ pc = "get_cmd" /\ ~eof
    /\ cmd_len = DEFAULT_CMD_MAXLEN
    /\ Len(typed) = DEFAULT_CMD_MAXLEN + 1
    /\ typed[Len(typed)] \in PrintableBytes

\* C13: the insert step applied to byte c with cmd_idx < cmd_len < the maximum
\* leaves the places before the old cursor as they were, puts c at the old
\* cursor, moves every character that was at i >= the old cursor to i+1 and
\* raises cmd_idx and cmd_len by exactly one.
C13_MidLineInsert ==
    [][(pc = "insert" /\ pc' = "inserted"
        /\ cmd_idx < cmd_len /\ cmd_len < DEFAULT_CMD_MAXLEN) =>
          /\ DOMAIN p_cmd' = DOMAIN p_cmd
          /\ \A i \in 0 .. cmd_idx - 1 : p_cmd'[i] = p_cmd[i]
          /\ p_cmd'[cmd_idx] = typed'[Len(typed')]
          /\ \A i \in cmd_idx .. cmd_len - 1 : p_cmd'[i + 1] = p_cmd[i]
          /\ \A i \in cmd_len + 1 .. DEFAULT_CMD_MAXLEN - 1 : p_cmd'[i] = p_cmd[i]
          /\ cmd_idx' = cmd_idx + 1
          /\ cmd_len' = cmd_len + 1]_vars

C13_Witness ==
    /\ pc = "inserted"
    /\ cmd_idx = 1 /\ cmd_len = DEFAULT_CMD_MAXLEN
    /\ p_cmd[0] \in PrintableBytes
    /\ p_cmd[1] \in PrintableBytes /\ p_cmd[2] \in PrintableBytes
    /\ p_cmd[1] # p_cmd[2]

\* The output ends with the hint.
HintPrinted ==
    /\ Len(out) >= Len(Hint)
    /\ SubSeq(out, Len(out) - Len(Hint) + 1, Len(out)) = Hint

\* C14: when console_run has handled a cancelled get_cmd call and is about to
\* prompt again, it has printed the hint exactly if no byte was typed in that
\* call before Ctrl-C.
C14_HintIffNothingTyped ==
    (pc = "loop" /\ outcome = "Cancelled") => (HintPrinted <=> typed = <<>>)

\* C15: every iteration of get_cmd's loop returns from get_cmd or consumes
\* exactly one byte of the input.
C15_IterationReturnsOrConsumes ==
    [][pc = "get_cmd" =>
          \/ pc' = "returned"
          \/ (pc' = "get_cmd" /\ typed' # typed /\ Len(typed') = Len(typed) + 1)]_vars

\* The positions in the log of the tcsetattr calls of console_initialize.
RawApplies ==
    {i \in 1 .. Len(sys_log) :
        sys_log[i].fn = "console_initialize" /\ sys_log[i].call = "tcsetattr"}

\* C16: console_initialize asks the terminal for the raw configuration only
\* after a tcgetattr has put the terminal's configuration into old_console,
\* and whenever that request has succeeded old_console holds the
\* configuration the terminal had before it.
C16_SnapshotBeforeRaw ==
    \A i \in RawApplies :
        /\ i > 1
        /\ sys_log[1].call = "tcgetattr" /\ sys_log[1].ok
        /\ console.old_console = term0
        /\ (sys_log[i].ok => sys_log[i].term = RawConfig(console.old_console))

C16_Witness ==
    /\ pc = "get_cmd"
    /\ RawApplies # {}
    /\ term = console.new_console
    /\ term # term0
    /\ console.old_console = term0

\* The column of the terminal's cursor after the first n bytes of o, written
\* from the start of a line: a printable byte moves it one to the right, a
\* backspace one to the left (not past the margin), CR to the margin, and NUL
\* and LF leave the column alone.
RECURSIVE ColumnAfter(_, _)
ColumnAfter(o, n) ==
    IF n = 0 THEN 0
    ELSE LET col == ColumnAfter(o, n - 1)
             b == o[n]
         IN  IF b >= 32 /\ b <= 126 THEN col + 1
             ELSE IF b = BS THEN (IF col > 0 THEN col - 1 ELSE 0)
             ELSE IF b = 13 THEN 0
             ELSE col

\* The terminal's cursor stands cmd_idx columns behind the prompt.
CursorAtIndex(o, idx) == ColumnAfter(o, Len(o)) = Len(Prompt) + idx

\* What get_cmd writes for an accepted byte: the byte, the characters behind
\* the new cursor in order, one backspace for each of them, and a flush.
EchoedAndRerendered ==
    LET c == typed'[Len(typed')]
        k == cmd_len' - cmd_idx'
        n == Len(out)
    IN  /\ Len(out') = n + 1 + 2 * k
        /\ SubSeq(out', 1, n) = out
        /\ out'[n + 1] = c
        /\ \A j \in 1 .. k : out'[n + 1 + j] = p_cmd'[cmd_idx' + j - 1]
        /\ \A j \in 1 .. k : out'[n + 1 + k + j] = BS
        /\ flushed' = Len(out')

\* C17: for every accepted byte get_cmd writes the byte, the characters behind
\* the new cursor, one backspace for each of them, and flushes; after it the
\* terminal's cursor column is the logical cursor index.
C17_EchoAndRerender ==
    [][(ReadsOtherByte /\ cmd_len < DEFAULT_CMD_MAXLEN) =>
          /\ EchoedAndRerendered
          /\ CursorAtIndex(out', cmd_idx')]_vars

\* C17, amended: the same output for every accepted byte; the terminal's
\* cursor column is the logical cursor index as long as every byte typed in
\* the call is a printable character.
C17_EchoAndRerenderPrintable ==
    [][(ReadsOtherByte /\ cmd_len < DEFAULT_CMD_MAXLEN) =>
          /\ EchoedAndRerendered
          /\ (AllPrintable(typed') => CursorAtIndex(out', cmd_idx'))]_vars

C17_Witness ==
    /\ pc = "get_cmd" /\ ~eof
    /\ Len(typed) = DEFAULT_CMD_MAXLEN /\ AllPrintable(typed)
    /\ cmd_len = DEFAULT_CMD_MAXLEN
    /\ flushed = Len(out)
    /\ CursorAtIndex(out, cmd_idx)

\* C18: whenever get_cmd has returned to console_run, the command buffer
\* holds a NUL byte, so that strlen and printf("%s") stop inside it.
C18_BufferNulTerminated ==
    pc = "returned" => HasNul(p_cmd)

\* The number of backspace characters in s.
Backspaces(s) == Cardinality({k \in 1 .. Len(s) : s[k] = BS})

\* C19: in get_cmd the cursor index is the length, so the shift loop and the
\* re-render loop have nothing to do, and no backspace character is in the
\* output.
C19_CursorAlwaysAtEnd ==
    pc \in {"get_cmd", "returned"} =>
        /\ cmd_idx = cmd_len
        /\ WrittenIndices(cmd_idx, cmd_len) = {cmd_idx}
        /\ Backspaces(out) = 0

\* C19, amended: in get_cmd the cursor index is the length, so the shift loop
\* and the re-render loop have nothing to do, and the only backspace
\* characters in the output are the echoes of accepted backspace bytes.
C19_CursorAtEndEchoOnly ==
    pc \in {"get_cmd", "returned"} =>
        /\ cmd_idx = cmd_len
        /\ WrittenIndices(cmd_idx, cmd_len) = {cmd_idx}
        /\ Backspaces(out) = Backspaces(TypedPrefix)

C19_Witness ==
    /\ pc = "get_cmd" /\ ~eof
    /\ Len(typed) = DEFAULT_CMD_MAXLEN
    /\ Backspaces(typed) = 1
    /\ cmd_idx = DEFAULT_CMD_MAXLEN

====
